---- MODULE Spec2Model ----
(***************************************************************************)
(* A model of the intern-all crate: Tok / WeakTok (src/src/token.rs), the  *)
(* per-type table TypedInterner (src/src/typed_interner.rs), the registry  *)
(* Interner (src/src/interner.rs) and the global layer (src/src/global.rs).*)
(*                                                                         *)
(* Memory is modelled explicitly.  Every Arc allocation is a cell with an  *)
(* address, a strong count and a weak count; Tok::id() and                 *)
(* Tok::interner_id() are those addresses.  The allocator returns any free *)
(* address, or under the first-fit policy the lowest free one.             *)
(***************************************************************************)
EXTENDS Integers, Sequences, FiniteSets, TLC

\* ------------------------------------------------------------- bounds ----
\* Number of addresses the allocator can hand out for Arc<T> values.
NData == 5
\* Number of addresses the allocator can hand out for Arc<TypedInterner<T>>.
NTables == 2

DataAddr == 1 .. NData
TableAddr == 1 .. NTables

\* ------------------------------------------------------------- values ----
\* Independent Interner instances a caller creates with Interner::new.
Locals == {"r1", "r2"}
\* The threads that use the global layer.
Threads == {"t1", "t2"}
\* The Interner the closure of get_global creates when thread t runs it.
DefaultRegs == [t \in Threads |-> IF t = "t1" THEN "d1" ELSE "d2"]
\* The Interners the closures handed to set_global return: one for each
\* call of a thread, in order.
CustomRegs ==
  [t \in Threads |-> IF t = "t1" THEN <<"c11", "c12">> ELSE <<"c21", "c22">>]
\* Every Interner instance.
Registries ==
  Locals \cup {DefaultRegs[t] : t \in Threads}
         \cup UNION {{CustomRegs[t][k] : k \in DOMAIN CustomRegs[t]} : t \in Threads}
\* The literal of the i! call site.
Literal == "foo"
\* The concrete stored types T, as their TypeId (interner.rs:30).
Types == {"String", "VecTokString"}
\* The string contents used as inputs.
Strs == {"foo", "bar"}

\* A Tok<T> (token.rs:31-34): the address of its Arc<T> and the address of
\* its Arc<TypedInterner<T>>.
NoTok == [data |-> 0, interner |-> 0]
Tok(d, t) == [data |-> d, interner |-> t]

\* A free Arc<T> cell; an allocated one has ty \in Types, the value it owns
\* (str for a String, elems for a Vec<Tok<String>>) and its two counts.
EmptyCell == [ty |-> "free", str |-> "", elems |-> <<>>, strong |-> 0, weak |-> 0]
\* A free Arc<TypedInterner<T>> cell; an allocated one has the type of the
\* table, the registry whose get_interner created it, its two counts and
\* the `tokens` map as a set of entries (key, WeakTok).
EmptyTable == [ty |-> "free", reg |-> "", strong |-> 0, weak |-> 0, tokens |-> {}]
NoTable == 0
\* What is left in `interners` of an Interner that has been dropped.
Dropped == 0 - 1

\* The tl_cache! call sites, as in the tests of tl_cache.rs: tl_cache!(1)
\* used as the default integer type, and tl_cache!(1) used as a u64.
Sites == {"tl_cache_correct", "tl_cache_incorrect"}

\* The variables a caller holds tokens in: let bindings of type Tok<String>
\* and of type Tok<Vec<Tok<String>>>.
StrSlots == {"k1", "k2"}
VecSlots == {"v1", "v2"}
Slots == StrSlots \cup VecSlots

VARIABLES
  heap,       \* [DataAddr -> cell]: the Arc<T> allocations
  tbl,        \* [TableAddr -> table]: the Arc<TypedInterner<T>> allocations
  interners,  \* [Registries -> [Types -> TableAddr \cup {NoTable}]]
  held,       \* [Slots -> Tok]: the tokens the caller holds
  ret,        \* the last operation and what it returned
  allocator,  \* the allocator's placement policy: "any" or "first_fit"
  SINGLETON,  \* the OnceLock of global.rs: its state, its value and the
              \* number of initialisers that have run
  threads,    \* [Threads -> the call of the global layer the thread is in,
              \*  what its last call saw and returned, and its thread-local
              \*  VALUE of the i! call site]
  MY_VALUE,   \* [Threads -> [Sites -> the thread-local of a tl_cache! site]]
  locks,      \* who holds the Mutex of each Interner's map and the RwLock of
              \* each TypedInterner's `tokens`
  frames      \* [Threads -> the call of Interner or TypedInterner the thread
              \*  is in, statement by statement]

vars ==
  <<heap, tbl, interners, held, ret, allocator, SINGLETON, threads, MY_VALUE,
    locks, frames>>

\* The memory an operation works on, threaded through its steps.
World == [heap |-> heap, tbl |-> tbl, interners |-> interners]

\* let x = v; F(x): v is evaluated once and the rest works on its value.
With(v, F(_)) == CHOOSE y \in {F(x) : x \in {v}} : TRUE

\* --------------------------------------------------- Arc / Weak counts ----
\* Arc::clone on the value and on the table.
RetainData(W, a) == [W EXCEPT !.heap[a].strong = @ + 1]
RetainTable(W, t) == [W EXCEPT !.tbl[t].strong = @ + 1]

\* #[derive(Clone)] for Tok: both Arcs are cloned.
Tok_clone(W, tok) == RetainTable(RetainData(W, tok.data), tok.interner)

RECURSIVE Tok_clone_all(_, _)
\* Vec<Tok<T>>::clone / to_owned of a slice of tokens: every element is cloned.
Tok_clone_all(W, s) ==
  With(s, LAMBDA toks :
    IF toks = <<>> THEN W
    ELSE Tok_clone_all(Tok_clone(W, Head(toks)), Tail(toks)))

\* The allocation is returned to the allocator when no strong and no weak
\* reference is left.
ReleaseCell(W, a) ==
  With(W, LAMBDA V :
    IF V.heap[a].strong = 0 /\ V.heap[a].weak = 0
    THEN [V EXCEPT !.heap[a] = EmptyCell] ELSE V)
ReleaseTable(W, t) ==
  With(W, LAMBDA V :
    IF V.tbl[t].strong = 0 /\ V.tbl[t].weak = 0
    THEN [V EXCEPT !.tbl[t] = EmptyTable] ELSE V)

\* Drop of a Weak<T> and of a Weak<TypedInterner<T>>.
DropWeakData(W, a) == ReleaseCell([W EXCEPT !.heap[a].weak = @ - 1], a)
DropWeakTable(W, t) == ReleaseTable([W EXCEPT !.tbl[t].weak = @ - 1], t)

RECURSIVE DropData(_, _), DropTok(_, _), DropToks(_, _), DropTable(_, _), DropEntries(_, _)

\* Drop of an Arc<T>: the last strong reference drops the value in place
\* (a Vec<Tok<T>> drops its elements).
DropData(W, a) ==
  With(W, LAMBDA V :
    IF V.heap[a].strong > 1 THEN [V EXCEPT !.heap[a].strong = @ - 1]
    ELSE ReleaseCell(
           DropToks([V EXCEPT !.heap[a] = [@ EXCEPT !.strong = 0, !.str = "",
                                                    !.elems = <<>>]],
                    V.heap[a].elems),
           a))

\* Drop of a Tok: its fields in declaration order, data then interner.
DropTok(W, tok) == DropTable(DropData(W, tok.data), tok.interner)

DropToks(W, s) ==
  With(s, LAMBDA toks :
    IF toks = <<>> THEN W ELSE DropToks(DropTok(W, Head(toks)), Tail(toks)))

\* Drop of one (Arc<T>, WeakTok<T>) pair of the `tokens` map.
DropEntry(W, e) ==
  DropWeakTable(DropWeakData(DropData(W, e.key), e.v.data), e.v.interner)

DropEntries(W, S) ==
  With(S, LAMBDA D :
    IF D = {} THEN W
    ELSE With(CHOOSE x \in D : TRUE, LAMBDA e :
           DropEntries(DropEntry(W, e), D \ {e})))

\* Drop of an Arc<TypedInterner<T>>: the last strong reference drops the
\* `tokens` map with every key and WeakTok in it.
DropTable(W, t) ==
  With(W, LAMBDA V :
    IF V.tbl[t].strong > 1 THEN [V EXCEPT !.tbl[t].strong = @ - 1]
    ELSE ReleaseTable(
           DropEntries([V EXCEPT !.tbl[t] = [@ EXCEPT !.strong = 0, !.tokens = {}]],
                       V.tbl[t].tokens),
           t))

FreeData(W) == {a \in DataAddr : W.heap[a].ty = "free"}
FreeTables(W) == {t \in TableAddr : W.tbl[t].ty = "free"}

\* ---------------------------------------------------------------- Tok ----
Tok_id(tok) == tok.data
Tok_interner_id(tok) == tok.interner

\* A comparison without the assertion: every pair of tokens passes.
assert_comparable_unchecked(a, b) == TRUE

\* TRUE when the assert_eq! passes, FALSE when it panics.
assert_comparable(a, b) == Tok_interner_id(a) = Tok_interner_id(b)

\* PartialEq::eq for Tok: "panic", "true" or "false".
Tok_eq(a, b) ==
  IF ~assert_comparable(a, b) THEN "panic"
  ELSE IF Tok_id(a) = Tok_id(b) THEN "true" ELSE "false"

\* Ord::cmp for Tok (PartialOrd::partial_cmp wraps it in Some).
Tok_cmp(a, b) ==
  IF ~assert_comparable(a, b) THEN "panic"
  ELSE IF Tok_id(a) < Tok_id(b) THEN "Less"
  ELSE IF Tok_id(a) = Tok_id(b) THEN "Equal" ELSE "Greater"

\* Deref for Tok: the value the Arc<T> points to.
Tok_deref(W, tok) == W.heap[tok.data]

\* WeakTok::new.
WeakTok_new(tok) == [data |-> tok.data, interner |-> tok.interner]

\* An upgrade that never succeeds.
WeakTok_upgrade_never(W, w) == NoTok

\* WeakTok::upgrade: both Weak::upgrade calls must succeed; NoTok for None.
WeakTok_upgrade(W, w) ==
  IF W.heap[w.data].strong > 0 /\ W.tbl[w.interner].strong > 0
  THEN Tok(w.data, w.interner) ELSE NoTok

\* ------------------------------------------------- probes, Borrow, Hash ----
\* A probe &Q is [form, str, elems]: form "String" (&String) or "str" (&str)
\* with its content in str; form "Vec" (&Vec<Tok<String>>) or "slice"
\* (&[Tok<String>]) with its tokens in elems.
StrProbe(form, x) == [form |-> form, str |-> x, elems |-> <<>>]
VecProbe(form, toks) == [form |-> form, str |-> "", elems |-> toks]

\* Q::Owned, the type whose table the probe goes to.
OwnedType(form) == IF form \in {"String", "str"} THEN "String" ELSE "VecTokString"

\* A stored value of type T seen as a probe of its own type, &T.
OwnedForm(ty) == IF ty = "String" THEN "String" ELSE "Vec"

\* <T as Borrow<Q>>::borrow: the stored value seen as a Q.
Borrow(c, form) == [form |-> form, str |-> c.str, elems |-> c.elems]

RECURSIVE SumIds(_)
SumIds(toks) == IF toks = <<>> THEN 0 ELSE Tok_id(Head(toks)) + SumIds(Tail(toks))

\* The content hash of a string.
StrHash(x) == IF x = "" THEN 0 ELSE IF x = "foo" THEN 1 ELSE 2

\* A hash that writes a borrowed form (str, [T]) differently from the owned
\* form (String, Vec<T>) of the same content.
compute_hash_by_form(q) ==
  StrHash(q.str) + Len(q.elems) + SumIds(q.elems)
    + (IF q.form \in {"str", "slice"} THEN 100 ELSE 0)

\* compute_hash: Hash of str and String agree, so do Hash of [T] and Vec<T>
\* (the length, then each element; Hash for Tok writes its id).  Two lists
\* with the same tokens in another order collide.
compute_hash(q) == StrHash(q.str) + Len(q.elems) + SumIds(q.elems)

RECURSIVE ElemsEq(_, _)
ElemsEq(x, y) ==
  IF x = <<>> THEN "true"
  ELSE LET h == Tok_eq(Head(x), Head(y))
       IN IF h = "true" THEN ElemsEq(Tail(x), Tail(y)) ELSE h

\* PartialEq of Q: content for strings; length, then the elements in order
\* with Tok's eq, for slices.
ProbeEq(a, b) ==
  IF a.str # b.str \/ Len(a.elems) # Len(b.elems) THEN "false"
  ELSE ElemsEq(a.elems, b.elems)

\* ------------------------------------------------------ TypedInterner ----
\* TypedInterner::size.
TypedInterner_size(W, t) == Cardinality(W.tbl[t].tokens)

\* A closure that matches a key only against a probe of the owned type.
KeyMatches_owned_only(W, e, q) ==
  /\ q.form = OwnedForm(W.heap[e.key].ty)
  /\ ProbeEq(Borrow(W.heap[e.key], q.form), q) = "true"

\* The closure given to from_hash: |k| <T as Borrow<Q>>::borrow(k) == q.
KeyMatches(W, e, q) == ProbeEq(Borrow(W.heap[e.key], q.form), q) = "true"

\* A lookup that never finds an entry, and one that accepts every entry.
Lookup_none(W, t, q) == {}
Lookup_any(W, t, q) == W.tbl[t].tokens

\* raw_entry_mut().from_hash(hash, eq): the entries stored under the probe's
\* hash (the map hashes a stored key as a T) whose key the closure accepts.
Lookup(W, t, q) ==
  {e \in W.tbl[t].tokens :
     /\ compute_hash(Borrow(W.heap[e.key], OwnedForm(W.heap[e.key].ty))) = compute_hash(q)
     /\ KeyMatches(W, e, q)}

\* The or_insert_with closure: a new Arc<T> at address fa holding
\* q.to_owned(), a Tok on it, and the (key, WeakTok) pair.  When the closure
\* returns, the strong references left are the key and the returned token.
InsertNew(W, t, q, fa) ==
  LET cell == [ty |-> OwnedType(q.form), str |-> q.str, elems |-> q.elems,
               strong |-> 2, weak |-> 1]
      tok == Tok(fa, t)
      entry == [key |-> fa, v |-> WeakTok_new(tok)]
  IN [w |-> [Tok_clone_all(W, q.elems) EXCEPT
               !.heap[fa] = cell,
               !.tbl[t].strong = @ + 1,
               !.tbl[t].weak = @ + 1,
               !.tbl[t].tokens = @ \cup {entry}],
      tok |-> tok]

\* Whether TypedInterner::i takes the insert branch (a miss, or a hit on an
\* entry whose WeakTok does not upgrade).
Misses(W, t, q) ==
  \A e \in Lookup(W, t, q) : WeakTok_upgrade(W, e.v) = NoTok

\* from_hash(..).and_replace_entry_with(..): on an occupied entry whose
\* WeakTok upgrades, ret becomes the clone of the upgraded token and the
\* entry is kept; an occupied entry whose WeakTok does not upgrade is
\* removed, which leaves the entry vacant and ret None (NoTok), as a vacant
\* entry does.
and_replace_entry_with(W, t, q) ==
  With(W, LAMBDA V :
  With(Lookup(V, t, q), LAMBDA found :
    IF \E x \in found : WeakTok_upgrade(V, x.v) # NoTok
    THEN With(WeakTok_upgrade(V, (CHOOSE x \in found :
                                    WeakTok_upgrade(V, x.v) # NoTok).v),
              LAMBDA tok : [w |-> Tok_clone(V, tok), tok |-> tok])
    ELSE [w |-> DropEntries([V EXCEPT !.tbl[t].tokens = @ \ found], found),
          tok |-> NoTok]))

\* An intern without the or_insert_with call: nothing is returned unless an
\* entry is found whose WeakTok upgrades.
TypedInterner_i_hit_only(W, t, q, fa) == and_replace_entry_with(W, t, q)

\* TypedInterner::i under the write lock: and_replace_entry_with, then
\* or_insert_with on the entry if it is vacant; `ret` is returned.
TypedInterner_i(W, t, q, fa) ==
  With(and_replace_entry_with(W, t, q), LAMBDA E :
    IF E.tok # NoTok THEN E ELSE InsertNew(E.w, t, q, fa))

\* TypedInterner::sweep under the write lock: extract_if removes the entries
\* whose WeakTok does not upgrade, count() drops and counts them.
TypedInterner_sweep(W, t) ==
  With(W, LAMBDA V :
  With({e \in V.tbl[t].tokens : WeakTok_upgrade(V, e.v) = NoTok}, LAMBDA dead :
    [w |-> DropEntries([V EXCEPT !.tbl[t].tokens = @ \ dead], dead),
     n |-> Cardinality(dead)]))

\* ----------------------------------------------------------- Interner ----
\* The closure of or_insert_with in get_interner: TypedInterner::<T>::new()
\* at address ft, put in the map under TypeId::of::<T>().
or_insert_with(W, r, ty, ft) ==
  [W EXCEPT !.tbl[ft] = [ty |-> ty, reg |-> r, strong |-> 1, weak |-> 0,
                         tokens |-> {}],
            !.interners[r][ty] = ft]

\* get_interner: the table stored under TypeId::of::<T>(), created at
\* address ft (held by the map) when there is none.
get_interner(W, r, ty, ft) ==
  IF W.interners[r][ty] # NoTable THEN [w |-> W, t |-> W.interners[r][ty]]
  ELSE [w |-> or_insert_with(W, r, ty, ft), t |-> ft]

\* Interner::i: the map is locked, the table resolved, the probe interned.
Interner_i(W, r, q, ft, fa) ==
  With(W, LAMBDA V :
  With(get_interner(V, r, OwnedType(q.form), ft), LAMBDA g :
    TypedInterner_i(g.w, g.t, q, fa)))

\* A sweep_type that resolves the table the way Interner::i does, creating
\* it when the type was never used.
Interner_sweep_type_creating(W, r, ty) ==
  IF W.interners[r][ty] = NoTable
  THEN [w |-> get_interner(W, r, ty, CHOOSE ft \in FreeTables(W) : TRUE).w, n |-> 0]
  ELSE TypedInterner_sweep(W, W.interners[r][ty])

\* Interner::sweep_type: the table is looked up with get, never created.
Interner_sweep_type(W, r, ty) ==
  IF W.interners[r][ty] = NoTable THEN [w |-> W, n |-> 0]
  ELSE TypedInterner_sweep(W, W.interners[r][ty])

RECURSIVE SweepAll(_, _)
SweepAll(W, ts) ==
  IF ts = {} THEN [w |-> W, n |-> 0]
  ELSE With(CHOOSE x \in ts : TRUE, LAMBDA t :
       With(TypedInterner_sweep(W, t), LAMBDA one :
       With(SweepAll(one.w, ts \ {t}), LAMBDA rest :
         [w |-> rest.w, n |-> one.n + rest.n])))

\* Interner::sweep: every table of the map is swept and the counts summed.
Interner_sweep(W, r) ==
  With(W, LAMBDA V :
    SweepAll(V, {V.interners[r][ty] : ty \in Types} \ {NoTable}))

RECURSIVE DropTables(_, _)
DropTables(W, ts) ==
  With(ts, LAMBDA D :
    IF D = {} THEN W
    ELSE With(CHOOSE x \in D : TRUE, LAMBDA t :
           DropTables(DropTable(W, t), D \ {t})))

\* An Interner that owns its tables outright: they go when it goes.
Interner_drop_owning(W, r) ==
  [W EXCEPT !.tbl = [t \in TableAddr |->
                       IF \E ty \in Types : W.interners[r][ty] = t
                       THEN EmptyTable ELSE @[t]],
            !.interners[r] = [ty \in Types |-> Dropped]]

\* Drop of an Interner: the Mutex and its HashMap are dropped, and with the
\* map every Arc<dyn AnyInterner> in it.
Interner_drop(W, r) ==
  With(W, LAMBDA V :
    [DropTables(V, {V.interners[r][ty] : ty \in Types} \ {NoTable})
       EXCEPT !.interners[r] = [ty \in Types |-> Dropped]])

\* Tok::interner followed by TypedInterner::i on the handle: the Arc of the
\* table is cloned, the probe interned through it, and the clone dropped.
Tok_interner_i(W, tok, q, fa) ==
  With(TypedInterner_i(RetainTable(W, tok.interner), tok.interner, q, fa), LAMBDA R :
    [w |-> DropTable(R.w, tok.interner), tok |-> R.tok])

\* The token the table would hand out for q on a live hit (NoTok on a miss).
Existing(W, r, q) ==
  With(W.interners[r][OwnedType(q.form)], LAMBDA t :
    IF t = NoTable THEN NoTok
    ELSE With(Lookup(W, t, q), LAMBDA found :
           IF \A e \in found : WeakTok_upgrade(W, e.v) = NoTok THEN NoTok
           ELSE WeakTok_upgrade(W, (CHOOSE e \in found :
                                      WeakTok_upgrade(W, e.v) # NoTok).v)))

RECURSIVE InternElems(_, _, _, _, _, _)
\* s.into_iter().map(|t| self.i(t)).collect::<Vec<_>>(): the elements are
\* interned one after the other, each a call of Interner::i, and their
\* tokens collected.  fas are the addresses the allocator will hand out, in
\* order; ok is FALSE when an allocation is needed and none is left.
InternElems(W, r, form, xs, ft, fas) ==
  IF xs = <<>> THEN [w |-> W, toks |-> <<>>, fas |-> fas, ok |-> TRUE]
  ELSE
  With(W, LAMBDA V :
  With(Existing(V, r, StrProbe(form, Head(xs))) = NoTok, LAMBDA miss :
    IF miss /\ fas = <<>>
    THEN [w |-> V, toks |-> <<>>, fas |-> fas, ok |-> FALSE]
    ELSE
    With(Interner_i(V, r, StrProbe(form, Head(xs)), ft,
                    IF miss THEN Head(fas) ELSE 0), LAMBDA R :
    With(InternElems(R.w, r, form, Tail(xs), ft,
                     IF miss THEN Tail(fas) ELSE fas), LAMBDA rest :
      [w |-> rest.w, toks |-> <<R.tok>> \o rest.toks,
       fas |-> rest.fas, ok |-> rest.ok]))))

\* The body shared by iv and ibv: the collected Vec<Tok<T>> is interned by
\* reference and dropped when the call returns.
InternList(W, r, form, xs, fts, fas) ==
  With(InternElems(W, r, form, xs, fts[1], fas), LAMBDA E :
    IF ~E.ok \/ (Existing(E.w, r, VecProbe("Vec", E.toks)) = NoTok /\ E.fas = <<>>)
    THEN [w |-> W, tok |-> NoTok, ok |-> FALSE]
    ELSE With(Interner_i(E.w, r, VecProbe("Vec", E.toks), fts[2],
                         IF E.fas = <<>> THEN 0 ELSE Head(E.fas)), LAMBDA R :
           [w |-> DropToks(R.w, E.toks), tok |-> R.tok, ok |-> TRUE]))

\* Interner::iv: the items are owned values, interned as &T.
Interner_iv(W, r, xs, fts, fas) == InternList(W, r, "String", xs, fts, fas)

\* Interner::ibv: the items are borrowed, interned as &Q.
Interner_ibv(W, r, xs, fts, fas) == InternList(W, r, "str", xs, fts, fas)

\* Tok<Vec<Tok<T>>>::prepend: the prefix tokens are moved into a new Vec,
\* the elements cloned behind them, and the Vec interned through the
\* token's own table; the Vec is dropped when the call returns.
Tok_prepend(W, tok, prefix, fa) ==
  With(prefix \o Tok_deref(W, tok).elems, LAMBDA all :
  With(TypedInterner_i(Tok_clone_all(W, Tok_deref(W, tok).elems), tok.interner,
                       VecProbe("Vec", all), fa), LAMBDA R :
    [w |-> DropToks(R.w, all), tok |-> R.tok]))

\* An append that chains the receiver's elements behind the added ones.
Tok_append_in_front(W, tok, suffix, fa) == Tok_prepend(W, tok, suffix, fa)

\* Tok<Vec<Tok<T>>>::append: the same with the suffix behind the elements.
Tok_append(W, tok, suffix, fa) ==
  With(Tok_deref(W, tok).elems \o suffix, LAMBDA all :
  With(TypedInterner_i(Tok_clone_all(W, Tok_deref(W, tok).elems), tok.interner,
                       VecProbe("Vec", all), fa), LAMBDA R :
    [w |-> DropToks(R.w, all), tok |-> R.tok]))

\* ------------------------------------------------------------ actions ----
\* op: the operation; a: the token returned (or the left operand); b: the
\* receiver (or the right operand); xs: the string content handed in;
\* res: the probe form, the registry swept or the comparison's outcome;
\* n: the count returned.
Ret(op, a, b, xs, res, n) ==
  [op |-> op, a |-> a, b |-> b, xs |-> xs, res |-> res, n |-> n]

\* The addresses the allocator may return, when the operation allocates.
Fresh(free, needed) == IF needed THEN free ELSE {0}

\* The addresses of `free` the allocator may return next: any of them, or
\* under the first-fit policy the lowest.  Tokens compare addresses of live
\* allocations only, so a run under another placement is this one with the
\* addresses renamed.
Placement(free) ==
  IF allocator = "any" THEN free ELSE {a \in free : \A b \in free : a <= b}

\* The possible results of n allocations in a row from `free`.
RECURSIVE Placements(_, _)
Placements(free, n) ==
  IF n = 0 THEN {<<>>}
  ELSE UNION {{<<a>> \o f : f \in Placements(free \ {a}, n - 1)} : a \in Placement(free)}

\* Arc::new of a value: one address, or n of them in a row.
AllocData(W, needed) == Fresh(Placement(FreeData(W)), needed)
AllocDataSeq(W, n) == Placements(FreeData(W), n)
\* Arc::new of a table, away from the addresses in `taken`.
AllocTable(W, taken, needed) == Fresh(Placement(FreeTables(W) \ taken), needed)

SlotsOf(ty) == IF ty = "String" THEN StrSlots ELSE VecSlots

\* static SINGLETON: OnceLock<&'static Interner> = OnceLock::new();
Uninit == [state |-> "uninit", value |-> "", runs |-> 0]

\* A thread outside any call of the global layer.  VALUE is the thread-local
\* of the i! call site (NoTok before its lazy initialisation), calls the
\* number of times the site called the interner on this thread, sets the
\* number of set_global calls the thread has made, seen the Interner its
\* last call got from the OnceLock and out what its last set_global
\* returned.
Idle(VALUE, calls, sets, seen, out) ==
  [pc |-> "idle", fn |-> "", arg |-> "", done |-> FALSE, VALUE |-> VALUE,
   calls |-> calls, sets |-> sets, seen |-> seen, out |-> out]

\* thread_local! { static MY_VALUE: (Box<dyn Any>, &'static str) = ... } of a
\* tl_cache! call site, before its lazy initialisation on the thread.
NoValue == [init |-> FALSE, name |-> "", data |-> 0]

\* Mutex::new and RwLock::new: nobody holds the lock.
Unlocked ==
  [interners |-> [r \in Registries |-> ""], tokens |-> [t \in TableAddr |-> ""]]

\* A thread outside any call of Interner and TypedInterner.
\* op is the function called, reg the Interner it is called on ("" for a
\* call on a TypedInterner), q the probe, t the table resolved, tok the
\* `ret` of TypedInterner::i, n the count of a sweep, todo the tables
\* Interner::sweep has still to visit, xs the items iv has still to
\* intern and toks the tokens it has collected.
NoCall ==
  [pc |-> "idle", op |-> "", reg |-> "", q |-> StrProbe("", ""), t |-> NoTable,
   tok |-> NoTok, n |-> 0, todo |-> {}, xs |-> <<>>, toks |-> <<>>]

Init ==
  /\ heap = [a \in DataAddr |-> EmptyCell]
  /\ tbl = [t \in TableAddr |-> EmptyTable]
  /\ interners = [r \in Registries |-> [ty \in Types |-> NoTable]]
  /\ held = [s \in Slots |-> NoTok]
  /\ ret = Ret("new", NoTok, NoTok, <<>>, "", 0)
  /\ allocator = "any"
  /\ SINGLETON = Uninit
  /\ threads = [t \in Threads |-> Idle(NoTok, 0, 0, "", "")]
  /\ MY_VALUE = [t \in Threads |-> [c \in Sites |-> NoValue]]
  /\ locks = Unlocked
  /\ frames = [t \in Threads |-> NoCall]

\* The same start under the first-fit allocator.
InitFirstFit ==
  /\ heap = [a \in DataAddr |-> EmptyCell]
  /\ tbl = [t \in TableAddr |-> EmptyTable]
  /\ interners = [r \in Registries |-> [ty \in Types |-> NoTable]]
  /\ held = [s \in Slots |-> NoTok]
  /\ ret = Ret("new", NoTok, NoTok, <<>>, "", 0)
  /\ allocator = "first_fit"
  /\ SINGLETON = Uninit
  /\ threads = [t \in Threads |-> Idle(NoTok, 0, 0, "", "")]
  /\ MY_VALUE = [t \in Threads |-> [c \in Sites |-> NoValue]]
  /\ locks = Unlocked
  /\ frames = [t \in Threads |-> NoCall]

CommitHeap(W) ==
  \E V \in {W} :
    /\ heap' = V.heap
    /\ tbl' = V.tbl
    /\ interners' = V.interners
    /\ UNCHANGED <<allocator, MY_VALUE, locks, frames>>

\* An operation on an Interner of the caller's own: the global layer is
\* not involved.
Commit(W) == CommitHeap(W) /\ UNCHANGED <<SINGLETON, threads>>

\* let s = r.i(q);
Intern(r, q, s) ==
  LET ty == OwnedType(q.form)
      needT == interners[r][ty] = NoTable
      needC == needT \/ Misses(World, interners[r][ty], q)
  IN /\ s \in SlotsOf(ty)
     /\ held[s] = NoTok
     /\ \E ft \in AllocTable(World, {}, needT), fa \in AllocData(World, needC) :
        \E R \in {Interner_i(World, r, q, ft, fa)} :
          /\ Commit(R.w)
          /\ held' = [held EXCEPT ![s] = R.tok]
          /\ ret' = Ret("i", R.tok, NoTok, <<q.str>>, q.form, 0)

\* let d = s.clone();
Clone(s, d) ==
  /\ held[s] # NoTok
  /\ held[d] = NoTok
  /\ \E ty \in Types : {s, d} \subseteq SlotsOf(ty)
  /\ Commit(Tok_clone(World, held[s]))
  /\ held' = [held EXCEPT ![d] = held[s]]
  /\ ret' = Ret("clone", held[s], NoTok, <<>>, "", 0)

\* drop(s);
Drop(s) ==
  /\ held[s] # NoTok
  /\ Commit(DropTok(World, held[s]))
  /\ held' = [held EXCEPT ![s] = NoTok]
  /\ ret' = Ret("drop", NoTok, NoTok, <<>>, "", 0)

\* r.sweep();
Sweep(r) ==
  \E R \in {Interner_sweep(World, r)} :
    /\ Commit(R.w)
    /\ ret' = Ret("sweep", NoTok, NoTok, <<>>, r, R.n)
    /\ UNCHANGED held

\* r.sweep_type::<ty>();
SweepType(r, ty) ==
  \E R \in {Interner_sweep_type(World, r, ty)} :
    /\ Commit(R.w)
    /\ ret' = Ret("sweep_type", NoTok, NoTok, <<ty>>, r, R.n)
    /\ UNCHANGED held

\* a == b;
Eq(a, b) ==
  /\ held[a] # NoTok /\ held[b] # NoTok
  /\ \E ty \in Types : {a, b} \subseteq SlotsOf(ty)
  /\ ret' = Ret("eq", held[a], held[b], <<>>, Tok_eq(held[a], held[b]), 0)
  /\ UNCHANGED <<heap, tbl, interners, held, allocator, SINGLETON, threads,
                 MY_VALUE, locks, frames>>

\* a.cmp(&b);
Cmp(a, b) ==
  /\ held[a] # NoTok /\ held[b] # NoTok
  /\ \E ty \in Types : {a, b} \subseteq SlotsOf(ty)
  /\ ret' = Ret("cmp", held[a], held[b], <<>>, Tok_cmp(held[a], held[b]), 0)
  /\ UNCHANGED <<heap, tbl, interners, held, allocator, SINGLETON, threads,
                 MY_VALUE, locks, frames>>

Range(f) == {f[i] : i \in DOMAIN f}

\* The tokens held in the slots ks, in order.
HeldToks(ks) == [i \in DOMAIN ks |-> held[ks[i]]]

\* The strings a list token's elements point to.
Content(W, tok) ==
  LET es == W.heap[tok.data].elems IN [i \in DOMAIN es |-> W.heap[es[i].data].str]

\* let d = r.iv(xs);  (form "String")   let d = r.ibv(xs);  (form "str")
\* At most one allocation per element and one for the list are made.
InternListOp(op, r, form, xs, d) ==
  LET W == World
      needS == xs # <<>> /\ interners[r]["String"] = NoTable
      needV == interners[r]["VecTokString"] = NoTable
      free == FreeData(W)
      n == IF Len(xs) + 1 < Cardinality(free) THEN Len(xs) + 1 ELSE Cardinality(free)
  IN /\ d \in VecSlots
     /\ held[d] = NoTok
     /\ \E ft1 \in AllocTable(W, {}, needS) :
        \E ft2 \in AllocTable(W, {ft1}, needV) :
        \E fas \in AllocDataSeq(W, n) :
        \E R \in {IF op = "iv" THEN Interner_iv(W, r, xs, <<ft1, ft2>>, fas)
                 ELSE Interner_ibv(W, r, xs, <<ft1, ft2>>, fas)} :
          /\ R.ok
          /\ Commit(R.w)
          /\ held' = [held EXCEPT ![d] = R.tok]
          /\ ret' = Ret(op, R.tok, NoTok, xs, form, 0)

IV(r, xs, d) == InternListOp("iv", r, "String", xs, d)
IBV(r, xs, d) == InternListOp("ibv", r, "str", xs, d)

\* let d = r.i(&vec![ks.clone()...]);  (form "Vec")
\* let d = r.i(&[ks.clone()...][..]);  (form "slice")
\* The element tokens are tokens of r's own String table.
InternVec(r, form, ks, d) ==
  /\ d \in VecSlots
  /\ held[d] = NoTok
  /\ \A k \in Range(ks) : held[k] # NoTok /\ held[k].interner = interners[r]["String"]
  /\ \E toks \in {HeldToks(ks)} :
     \E W \in {Tok_clone_all(World, toks)} :
     \E ft \in AllocTable(W, {}, interners[r]["VecTokString"] = NoTable) :
     \E fa \in AllocData(W, Existing(W, r, VecProbe(form, toks)) = NoTok) :
     \E R \in {Interner_i(W, r, VecProbe(form, toks), ft, fa)} :
       /\ Commit(DropToks(R.w, toks))
       /\ held' = [held EXCEPT ![d] = R.tok]
       /\ ret' = Ret("i", R.tok, NoTok,
                     [i \in DOMAIN ks |-> heap[toks[i].data].str], form, 0)

\* The table the elements of a list token come from (for an empty list, the
\* String table of the registry that issued the list token).
ElemsTable(tok) ==
  IF heap[tok.data].elems # <<>> THEN heap[tok.data].elems[1].interner
  ELSE interners[tbl[tok.interner].reg]["String"]

\* let d = v.append([ks.clone()...]);   let d = v.prepend([ks.clone()...]);
\* With d = v the result is assigned over the receiver (v = v.append(..)),
\* whose old token is dropped by the assignment.
\* The tokens added are tokens of the table v's own elements come from.
Extend(op, v, ks, d) ==
  /\ {v, d} \subseteq VecSlots
  /\ held[v] # NoTok
  /\ held[d] = NoTok \/ d = v
  /\ \A k \in Range(ks) :
       /\ held[k] # NoTok
       /\ held[k].interner = ElemsTable(held[v])
  /\ \E toks \in {HeldToks(ks)} :
     \E W \in {Tok_clone_all(World, toks)} :
     \E all \in {IF op = "append" THEN heap[held[v].data].elems \o toks
                 ELSE toks \o heap[held[v].data].elems} :
     \E fa \in AllocData(W, Misses(W, held[v].interner, VecProbe("Vec", all))) :
     \E R \in {IF op = "append" THEN Tok_append(W, held[v], toks, fa)
               ELSE Tok_prepend(W, held[v], toks, fa)} :
       /\ Commit(IF d = v THEN DropTok(R.w, held[v]) ELSE R.w)
       /\ held' = [held EXCEPT ![d] = R.tok]
       /\ ret' = Ret(op, R.tok, held[v],
                     [i \in DOMAIN ks |-> heap[toks[i].data].str], "", 0)

\* Whether the Interner r has not been dropped.
Alive(r) == \A ty \in Types : interners[r][ty] # Dropped

\* drop(r);
DropInterner(r) ==
  /\ Alive(r)
  /\ Commit(Interner_drop(World, r))
  /\ ret' = Ret("drop_interner", NoTok, NoTok, <<>>, r, 0)
  /\ UNCHANGED held

\* let d = s.interner().i(q);
InternVia(s, q, d) ==
  /\ held[s] # NoTok
  /\ held[d] = NoTok
  /\ {s, d} \subseteq SlotsOf(OwnedType(q.form))
  /\ \E fa \in AllocData(World, Misses(World, held[s].interner, q)) :
     \E R \in {Tok_interner_i(World, held[s], q, fa)} :
       /\ Commit(R.w)
       /\ held' = [held EXCEPT ![d] = R.tok]
       /\ ret' = Ret("via", R.tok, held[s], <<q.str>>, q.form, 0)

AppendOp(v, ks, d) == Extend("append", v, ks, d)
PrependOp(v, ks, d) == Extend("prepend", v, ks, d)

\* ------------------------------------------------------- global layer ----
\* The variable a thread keeps the token of its last global call in.
ThreadSlot == [t \in Threads |-> IF t = "t1" THEN "k1" ELSE "k2"]

\* A OnceLock that lets every caller that finds it not yet initialised run
\* its closure.
get_or_init_enter_racy(S) == IF S.state = "done" THEN "have" ELSE "init"

\* OnceLock::get_or_init, on entry: the value is there ("have"), or the
\* caller is the one to run its closure ("init"), or another caller is
\* running one and this caller blocks until it is done ("wait").
get_or_init_enter(S) ==
  IF S.state = "done" THEN "have"
  ELSE IF S.state = "uninit" THEN "init" ELSE "wait"

\* A closure of set_global that leaves `done` as it was.
InitClosure_keeps_done(t, T) ==
  [done |-> T.done,
   reg |-> IF T.fn = "set_global" THEN CustomRegs[t][T.sets + 1] ELSE DefaultRegs[t]]

\* The closure thread t hands to get_or_init in the call T.  In set_global
\* it sets done and returns the caller's Interner; everywhere else (every
\* other function goes through get_global) it leaks a new Interner.
InitClosure(t, T) ==
  IF T.fn = "set_global"
  THEN [done |-> TRUE, reg |-> CustomRegs[t][T.sets + 1]]
  ELSE [done |-> T.done, reg |-> DefaultRegs[t]]

\* A thread-local that runs its initialiser at every access.
VALUE_never_initialised(T) == FALSE

\* Whether the lazy thread_local VALUE of the i! site has been initialised
\* on the thread.
VALUE_initialised(T) == T.VALUE # NoTok

\* Thread t enters fn (get_global, set_global, i, sweep, or the first i! of
\* the thread, whose thread_local initialiser calls i) and with it
\* SINGLETON.get_or_init.
Begin(t, fn, x) ==
  LET path == get_or_init_enter(SINGLETON) IN
  /\ threads[t].pc = "idle"
  /\ fn = "set_global" => threads[t].sets < Len(CustomRegs[t])
  /\ fn = "i!" => ~VALUE_initialised(threads[t])
  /\ threads' = [threads EXCEPT ![t].pc = path, ![t].fn = fn, ![t].arg = x,
                                ![t].done = FALSE]
  /\ SINGLETON' = IF path = "init" THEN [SINGLETON EXCEPT !.state = "running"]
                  ELSE SINGLETON
  /\ UNCHANGED <<heap, tbl, interners, held, ret, allocator, MY_VALUE, locks, frames>>

GetGlobal(t) == Begin(t, "get_global", "")
SetGlobal(t) == Begin(t, "set_global", "")
GlobalI(t, x) == Begin(t, "i", x)
GlobalSweep(t) == Begin(t, "sweep", "")
MacroInit(t) == Begin(t, "i!", Literal)

\* The closure of the thread that get_or_init chose runs and its result is
\* stored in the OnceLock.
RunInit(t) ==
  LET c == InitClosure(t, threads[t]) IN
  /\ threads[t].pc = "init"
  /\ SINGLETON' = [state |-> "done", value |-> c.reg, runs |-> SINGLETON.runs + 1]
  /\ threads' = [threads EXCEPT ![t].pc = "have", ![t].done = c.done]
  /\ UNCHANGED <<heap, tbl, interners, held, ret, allocator, MY_VALUE, locks, frames>>

\* A thread blocked in get_or_init goes on once the value is stored.
Wake(t) ==
  /\ threads[t].pc = "wait"
  /\ SINGLETON.state = "done"
  /\ threads' = [threads EXCEPT ![t].pc = "have"]
  /\ UNCHANGED <<heap, tbl, interners, held, ret, allocator, SINGLETON,
                 MY_VALUE, locks, frames>>

\* An assignment to a variable that may hold a token drops the old one.
DropOld(W, s) == IF held[s] = NoTok THEN W ELSE DropTok(W, held[s])

\* get_or_init has returned the Interner r; the rest of the function runs.
Finish(t) ==
  LET T == threads[t]
      r == SINGLETON.value
      s == ThreadSlot[t]
      q == StrProbe("str", T.arg)
      needT == interners[r]["String"] = NoTable
      needC == needT \/ Misses(World, interners[r]["String"], q)
  IN
  /\ T.pc = "have"
  /\ UNCHANGED SINGLETON
  /\ \/ /\ T.fn = "get_global"
        /\ threads' = [threads EXCEPT ![t] = Idle(T.VALUE, T.calls, T.sets, r, T.out)]
        /\ ret' = Ret("get_global", NoTok, NoTok, <<>>, t, 0)
        /\ UNCHANGED <<heap, tbl, interners, held, allocator, MY_VALUE, locks, frames>>
     \/ /\ T.fn = "set_global"
        /\ threads' = [threads EXCEPT ![t] =
                         Idle(T.VALUE, T.calls, T.sets + 1, r,
                              IF T.done THEN "true" ELSE "false")]
        /\ ret' = Ret("set_global", NoTok, NoTok, <<>>, t, 0)
        /\ UNCHANGED <<heap, tbl, interners, held, allocator, MY_VALUE, locks, frames>>
     \/ /\ T.fn = "sweep"
        /\ \E R \in {Interner_sweep(World, r)} :
             /\ CommitHeap(R.w)
             /\ ret' = Ret("global_sweep", NoTok, NoTok, <<>>, t, R.n)
        /\ threads' = [threads EXCEPT ![t] = Idle(T.VALUE, T.calls, T.sets, r, T.out)]
        /\ UNCHANGED held
     \/ /\ T.fn = "i"
        /\ \E ft \in AllocTable(World, {}, needT), fa \in AllocData(World, needC) :
           \E R \in {Interner_i(World, r, q, ft, fa)} :
             /\ CommitHeap(DropOld(R.w, s))
             /\ held' = [held EXCEPT ![s] = R.tok]
             /\ ret' = Ret("global_i", R.tok, NoTok, <<T.arg>>, t, 0)
        /\ threads' = [threads EXCEPT ![t] = Idle(T.VALUE, T.calls, T.sets, r, T.out)]
     \/ /\ T.fn = "i!"
        /\ \E ft \in AllocTable(World, {}, needT), fa \in AllocData(World, needC) :
           \E R \in {Interner_i(World, r, q, ft, fa)} :
           \E W1 \in {IF T.VALUE = NoTok THEN R.w ELSE DropTok(R.w, T.VALUE)} :
             /\ CommitHeap(DropOld(Tok_clone(W1, R.tok), s))
             /\ held' = [held EXCEPT ![s] = R.tok]
             /\ ret' = Ret("i!", R.tok, NoTok, <<T.arg>>, t, 0)
             /\ threads' = [threads EXCEPT ![t] =
                              Idle(R.tok, T.calls + 1, T.sets, r, T.out)]

\* i!(str: "foo") on a thread whose VALUE is initialised: VALUE.with(|v|
\* v.clone()) and nothing else.
MacroHit(t) ==
  LET T == threads[t]
      s == ThreadSlot[t]
  IN /\ T.pc = "idle"
     /\ VALUE_initialised(T)
     /\ CommitHeap(DropOld(Tok_clone(World, T.VALUE), s))
     /\ held' = [held EXCEPT ![s] = T.VALUE]
     /\ ret' = Ret("i!", T.VALUE, NoTok, <<Literal>>, t, 0)
     /\ UNCHANGED <<SINGLETON, threads>>

\* ----------------------------------------------------- calls in steps ----
\* Two threads call one Interner and the tables of the tokens they hold.
\* A call runs statement by statement; between two steps of a thread the
\* other thread may run.  A thread keeps its results in variables of its own.
ThreadVec == [t \in Threads |-> IF t = "t1" THEN "v1" ELSE "v2"]

\* A Mutex that lets every caller in.
Mutex_lock_unguarded(holder) == TRUE

\* Mutex::lock on `interners`: the caller goes on when nobody holds the
\* lock (the Mutex is not reentrant).
Mutex_lock(holder) == holder = ""

\* An RwLock whose write() lets every caller in.
RwLock_write_unguarded(holder) == TRUE

\* RwLock::write on `tokens`: the caller goes on when nobody holds the lock.
RwLock_write(holder) == holder = ""

\* Arc::downcast::<TypedInterner<T>>: Ok when the table is one of T.
downcast(W, t, ty) == W.tbl[t].ty = ty

\* The T of a call: Q::Owned of its probe.
TypeOf(F) == OwnedType(F.q.form)

\* A step of thread t that leaves it in F and the memory as W.
Sync(t, F, W) ==
  \E V \in {W} :
    /\ frames' = [frames EXCEPT ![t] = F]
    /\ heap' = V.heap
    /\ tbl' = V.tbl
    /\ interners' = V.interners
    /\ UNCHANGED <<allocator, SINGLETON, threads, MY_VALUE>>

\* Thread t enters r.i(q), r.sweep() or r.sweep_type::<T>() (T the owned
\* type of q).
CallInterner(t, op, r, q) ==
  /\ frames[t].pc = "idle"
  /\ Alive(r)
  /\ Sync(t, [NoCall EXCEPT !.pc = "lock_map", !.op = op, !.reg = r, !.q = q], World)
  /\ UNCHANGED <<held, ret, locks>>

\* Thread t enters r.iv(xs): the first self.i(&t) of the map closure, or,
\* for an empty list, the self.i(&vec).
CallIV(t, r, xs) ==
  /\ frames[t].pc = "idle"
  /\ Alive(r)
  /\ Sync(t, [NoCall EXCEPT !.pc = "lock_map", !.op = "iv", !.reg = r,
                            !.q = IF xs = <<>> THEN VecProbe("Vec", <<>>)
                                  ELSE StrProbe("String", Head(xs)),
                            !.xs = IF xs = <<>> THEN <<>> ELSE Tail(xs)], World)
  /\ UNCHANGED <<held, ret, locks>>

\* Thread t enters k.interner().i(q) or k.interner().sweep() on the token
\* k it holds: Tok::interner clones the Arc of the table.
CallTable(t, op, q) ==
  LET k == held[ThreadSlot[t]] IN
  /\ frames[t].pc = "idle"
  /\ k # NoTok
  /\ Sync(t, [NoCall EXCEPT !.pc = "write", !.op = op, !.q = q, !.t = k.interner],
          RetainTable(World, k.interner))
  /\ UNCHANGED <<held, ret, locks>>

\* The longest list a thread appends to.
MaxAppended == 2

\* Thread t enters v.append([k.clone()]) on the list token v and the string
\* token k it holds: the handle is cloned and the Vec built.
CallAppend(t) ==
  LET v == held[ThreadVec[t]]
      k == held[ThreadSlot[t]]
  IN
  /\ frames[t].pc = "idle"
  /\ v # NoTok /\ k # NoTok
  /\ k.interner = ElemsTable(v)
  /\ Len(heap[v.data].elems) < MaxAppended
  /\ \E all \in {heap[v.data].elems \o <<k>>} :
       Sync(t, [NoCall EXCEPT !.pc = "write", !.op = "append", !.t = v.interner,
                             !.q = VecProbe("Vec", all), !.toks = all],
            Tok_clone_all(RetainTable(World, v.interner), all))
  /\ UNCHANGED <<held, ret, locks>>

\* let mut interners = self.interners.lock().unwrap();
LockMap(t) ==
  LET F == frames[t] IN
  /\ F.pc = "lock_map"
  /\ Mutex_lock(locks.interners[F.reg])
  /\ locks' = [locks EXCEPT !.interners[F.reg] = t]
  /\ Sync(t, [F EXCEPT !.pc = IF F.op \in {"i", "iv"} THEN "from_key"
                              ELSE IF F.op = "sweep_type" THEN "get" ELSE "values",
                       !.todo = IF F.op = "sweep"
                                THEN {interners[F.reg][ty] : ty \in Types} \ {NoTable}
                                ELSE {}], World)
  /\ UNCHANGED <<held, ret>>

\* get_interner on an occupied entry: the Arc in the map is cloned and
\* downcast (expect panics on Err).  On a vacant entry or_insert_with is next.
FromKey(t) ==
  LET F == frames[t]
      it == interners[F.reg][TypeOf(F)]
  IN
  /\ F.pc = "from_key"
  /\ IF it = NoTable THEN Sync(t, [F EXCEPT !.pc = "or_insert_with"], World)
     ELSE Sync(t, [F EXCEPT !.t = it,
                           !.pc = IF downcast(World, it, TypeOf(F)) THEN "write"
                                  ELSE "panicked"],
               RetainTable(World, it))
  /\ UNCHANGED <<held, ret, locks>>

\* get_interner on a vacant entry: the new table is inserted, cloned and
\* downcast.
OrInsertWith(t) ==
  LET F == frames[t] IN
  /\ F.pc = "or_insert_with"
  /\ \E ft \in AllocTable(World, {}, TRUE) :
       Sync(t, [F EXCEPT !.t = ft, !.pc = "write"],
            RetainTable(or_insert_with(World, F.reg, TypeOf(F), ft), ft))
  /\ UNCHANGED <<held, ret, locks>>

\* sweep_type: interners.get(&TypeId::of::<T>()).
Get(t) ==
  LET F == frames[t]
      it == interners[F.reg][TypeOf(F)]
  IN
  /\ F.pc = "get"
  /\ Sync(t, IF it = NoTable THEN [F EXCEPT !.pc = "return"]
             ELSE [F EXCEPT !.t = it, !.pc = "write"], World)
  /\ UNCHANGED <<held, ret, locks>>

\* sweep: the next table of interners.values(), in the map's order.
Values(t) ==
  LET F == frames[t] IN
  /\ F.pc = "values"
  /\ IF F.todo = {} THEN Sync(t, [F EXCEPT !.pc = "return"], World)
     ELSE \E x \in F.todo :
            Sync(t, [F EXCEPT !.t = x, !.todo = @ \ {x}, !.pc = "write"], World)
  /\ UNCHANGED <<held, ret, locks>>

\* self.tokens.write().unwrap() in TypedInterner::i and TypedInterner::sweep.
Write(t) ==
  LET F == frames[t] IN
  /\ F.pc = "write"
  /\ RwLock_write(locks.tokens[F.t])
  /\ locks' = [locks EXCEPT !.tokens[F.t] = t]
  /\ Sync(t, [F EXCEPT !.pc = IF F.op \in {"sweep", "sweep_type", "table_sweep"}
                              THEN "extract_if" ELSE "from_hash"], World)
  /\ UNCHANGED <<held, ret>>

\* A lookup that gives the write guard of `tokens` up on a vacant entry, so
\* that the insert runs outside it.
FromHash_unlocking(t) ==
  LET F == frames[t] IN
  /\ F.pc = "from_hash"
  /\ \E E \in {and_replace_entry_with(World, F.t, F.q)} :
       /\ Sync(t, [F EXCEPT !.tok = E.tok,
                           !.pc = IF E.tok # NoTok THEN "unlock" ELSE "insert"], E.w)
       /\ locks' = IF E.tok # NoTok THEN locks
                   ELSE [locks EXCEPT !.tokens[F.t] = ""]
  /\ UNCHANGED <<held, ret>>

\* TypedInterner::i: compute_hash, from_hash and and_replace_entry_with.
FromHash(t) ==
  LET F == frames[t] IN
  /\ F.pc = "from_hash"
  /\ \E E \in {and_replace_entry_with(World, F.t, F.q)} :
       Sync(t, [F EXCEPT !.tok = E.tok,
                        !.pc = IF E.tok # NoTok THEN "unlock" ELSE "insert"], E.w)
  /\ UNCHANGED <<held, ret, locks>>

\* TypedInterner::i: or_insert_with on the vacant entry.
Insert(t) ==
  LET F == frames[t] IN
  /\ F.pc = "insert"
  /\ \E fa \in AllocData(World, TRUE) :
     \E R \in {InsertNew(World, F.t, F.q, fa)} :
       Sync(t, [F EXCEPT !.tok = R.tok, !.pc = "unlock"], R.w)
  /\ UNCHANGED <<held, ret, locks>>

\* TypedInterner::sweep: extract_if(..).count().
ExtractIf(t) ==
  LET F == frames[t] IN
  /\ F.pc = "extract_if"
  /\ \E R \in {TypedInterner_sweep(World, F.t)} :
       Sync(t, [F EXCEPT !.n = @ + R.n, !.pc = "unlock"], R.w)
  /\ UNCHANGED <<held, ret, locks>>

\* The write guard of `tokens` is dropped where TypedInterner::i and
\* TypedInterner::sweep return.
Unlock(t) ==
  LET F == frames[t] IN
  /\ F.pc = "unlock"
  /\ locks' = [locks EXCEPT !.tokens[F.t] = ""]
  /\ Sync(t, [F EXCEPT !.pc = IF F.op = "sweep" THEN "values"
                              ELSE IF F.op = "iv" /\ F.q.form = "String" THEN "collect"
                              ELSE "return"], World)
  /\ UNCHANGED <<held, ret>>

\* A guard of `interners` that outlives the call that took it.
UnlockMap_leaked(F) == locks

\* The guard of `interners`, if the call took it, is dropped where the call
\* returns.
UnlockMap(F) ==
  IF F.reg = "" THEN locks ELSE [locks EXCEPT !.interners[F.reg] = ""]

\* iv: a self.i(&t) of the map closure returns (the handle and the guard of
\* `interners` are dropped) and its token is collected; the next item is
\* interned, or after the last one the Vec.
Collect(t) ==
  LET F == frames[t] IN
  /\ F.pc = "collect"
  /\ locks' = UnlockMap(F)
  /\ \E toks \in {F.toks \o <<F.tok>>} :
       Sync(t, [F EXCEPT !.pc = "lock_map", !.t = NoTable, !.tok = NoTok,
                        !.toks = toks,
                        !.q = IF F.xs = <<>> THEN VecProbe("Vec", toks)
                              ELSE StrProbe("String", Head(F.xs)),
                        !.xs = IF F.xs = <<>> THEN <<>> ELSE Tail(F.xs)],
            DropTable(World, F.t))
  /\ UNCHANGED <<held, ret>>

\* The call returns: the handle of the table (i, iv and the calls through
\* Tok::interner hold one) and the guard of `interners` are dropped, a Vec
\* built for the call is dropped, and the result is assigned to the
\* thread's variable, whose old token is dropped.
Return(t) ==
  LET F == frames[t]
      sweeping == F.op \in {"sweep", "sweep_type", "table_sweep"}
      s == IF F.op \in {"iv", "append"} THEN ThreadVec[t] ELSE ThreadSlot[t]
  IN
  /\ F.pc = "return"
  /\ locks' = UnlockMap(F)
  /\ \E W1 \in {IF F.op \in {"sweep", "sweep_type"} THEN World
                 ELSE DropToks(DropTable(World, F.t), F.toks)} :
     \E W2 \in {IF sweeping THEN W1 ELSE DropOld(W1, s)} :
       /\ Sync(t, NoCall, W2)
       /\ held' = IF sweeping THEN held ELSE [held EXCEPT ![s] = F.tok]
       /\ ret' = IF sweeping
                 THEN Ret(F.op, NoTok, NoTok,
                          IF F.op = "sweep_type" THEN <<TypeOf(F)>> ELSE <<>>,
                          IF F.reg = "" THEN t ELSE F.reg, F.n)
                 ELSE Ret(F.op, F.tok, NoTok,
                          IF F.q.form \in {"String", "str"} THEN <<F.q.str>>
                          ELSE Content(W2, F.tok),
                          t, 0)

\* drop(s) by a thread that is not in a call, for a variable of its own.
ThreadDrop(t, s) ==
  /\ frames[t].pc = "idle"
  /\ s \in {ThreadSlot[t], ThreadVec[t]}
  /\ Drop(s)

\* ----------------------------------------------------------- tl_cache ----
\* The values the cached expression may have when it is evaluated.
ExprValues == {1, 2}

\* type_name_of_val(&*data): the type the expression has on its own in the
\* thread_local initialiser.  The literal 1 defaults to i32.
DefaultType == [c \in Sites |-> "i32"]

\* The T the point of use unifies to: i32 in tl_cache_correct, u64 in
\* tl_cache_incorrect (let _: u64 = tl_cache!(1)).
RequestedType ==
  [c \in Sites |-> IF c = "tl_cache_correct" THEN "i32" ELSE "u64"]

\* A downcast that hands the boxed value out as any T.
downcast_ref_coercing(V, T) == [some |-> TRUE, data |-> V.data]

\* v.downcast_ref::<T>().cloned(): Some(clone) when the box holds a T.
downcast_ref(V, T) ==
  IF V.name = T THEN [some |-> TRUE, data |-> V.data] ELSE [some |-> FALSE, data |-> 0]

\* tl_cache!(expr) at site c on thread t, where expr would evaluate to d:
\* MY_VALUE.with initialises the thread-local on first access, then the
\* closure downcasts and clones, or panics in failed_downcast_to.
TlCache(t, c, d) ==
  LET V == IF MY_VALUE[t][c].init THEN MY_VALUE[t][c]
           ELSE [init |-> TRUE, name |-> DefaultType[c], data |-> d]
      r == downcast_ref(V, RequestedType[c])
  IN /\ MY_VALUE' = [MY_VALUE EXCEPT ![t][c] = V]
     /\ ret' = Ret("tl_cache", NoTok, NoTok, <<t, c>>,
                   IF r.some THEN "ok" ELSE "panic", r.data)
     /\ UNCHANGED <<heap, tbl, interners, held, allocator, SINGLETON, threads,
                    locks, frames>>

\* Both call sites run on both threads, any number of times.
NextCache == \E t \in Threads, c \in Sites, d \in ExprValues : TlCache(t, c, d)

SpecCache == Init /\ [][NextCache]_vars

StrProbes == {StrProbe(f, x) : f \in {"String", "str"}, x \in Strs}

\* Strings interned, cloned, dropped, swept and compared in one registry.
Next ==
  \/ \E q \in StrProbes, s \in StrSlots : Intern("r1", q, s)
  \/ \E s, d \in StrSlots : Clone(s, d)
  \/ \E s \in StrSlots : Drop(s)
  \/ Sweep("r1")
  \/ SweepType("r1", "String")
  \/ \E a, b \in StrSlots : Eq(a, b)
  \/ \E a, b \in StrSlots : Cmp(a, b)

Spec == Init /\ [][Next]_vars

\* The same string interned in two independent registries, and the tokens
\* compared.
NextCross ==
  \/ \E r \in Locals, x \in Strs, s \in StrSlots :
       Intern(r, StrProbe("str", x), s)
  \/ \E s \in StrSlots : Drop(s)
  \/ \E a, b \in StrSlots : Eq(a, b)
  \/ \E a, b \in StrSlots : Cmp(a, b)

SpecCross == Init /\ [][NextCross]_vars

\* The lists handed to iv and ibv: the empty list, a pair in both orders
\* and a repeated element.
ListInputs ==
  {<<>>, <<"foo", "bar">>, <<"bar", "foo">>, <<"foo", "foo">>}

\* The held element tokens handed to i as a Vec or a slice.
SlotInputs == {<<"k1", "k1">>}

\* Lists interned from owned values, from borrowed values and from held
\* element tokens in one registry.
NextList ==
  \/ \E x \in Strs : Intern("r1", StrProbe("str", x), "k1")
  \/ \E xs \in ListInputs, d \in VecSlots : IV("r1", xs, d)
  \/ \E xs \in ListInputs, d \in VecSlots : IBV("r1", xs, d)
  \/ \E f \in {"Vec", "slice"}, ks \in SlotInputs, d \in VecSlots :
       InternVec("r1", f, ks, d)
  \/ \E s \in {"k1"} \cup VecSlots : Drop(s)

SpecList == InitFirstFit /\ [][NextList]_vars

\* The lists interned directly: a list L of three elements and the list
\* L.append(["foo"]).prepend(["bar"]) of five.
DirectInputs ==
  {<<"foo", "foo", "bar">>, <<"bar", "foo", "foo", "bar", "foo">>}

\* Lists extended by one held element token at the back or at the front, and
\* lists interned directly, in one registry.
NextExtend ==
  \/ \E x \in Strs : Intern("r1", StrProbe("str", x), "k1")
  \/ \E xs \in DirectInputs, d \in VecSlots : IV("r1", xs, d)
  \/ \E v, d \in VecSlots : AppendOp(v, <<"k1">>, d)
  \/ \E v, d \in VecSlots : PrependOp(v, <<"k1">>, d)
  \/ \E s \in {"k1"} \cup VecSlots : Drop(s)

SpecExtend == InitFirstFit /\ [][NextExtend]_vars

\* Two threads use the global layer: get_global, set_global, sweep, i on
\* the literal and the i! call site, and drop the tokens they got.
NextGlobal ==
  \/ \E t \in Threads : GetGlobal(t)
  \/ \E t \in Threads : SetGlobal(t)
  \/ \E t \in Threads : GlobalI(t, Literal)
  \/ \E t \in Threads : GlobalSweep(t)
  \/ \E t \in Threads : MacroInit(t)
  \/ \E t \in Threads : MacroHit(t)
  \/ \E t \in Threads : RunInit(t)
  \/ \E t \in Threads : Wake(t)
  \/ \E t \in Threads : Finish(t)
  \/ \E t \in Threads : Drop(ThreadSlot[t])

SpecGlobal == InitFirstFit /\ [][NextGlobal]_vars

\* The lists handed to iv where both tables of a registry are watched.
TableInputs == {<<"foo">>, <<"foo", "bar">>}

\* Strings and lists interned and dropped in one registry, with sweeps of
\* the whole registry and of either type.
NextTables ==
  \/ \E q \in StrProbes, s \in StrSlots : Intern("r1", q, s)
  \/ \E xs \in TableInputs : IV("r1", xs, "v1")
  \/ \E s \in StrSlots \cup {"v1"} : Drop(s)
  \/ \E ty \in Types : SweepType("r1", ty)
  \/ Sweep("r1")

SpecTables == InitFirstFit /\ [][NextTables]_vars

\* A registry is used and then dropped while tokens it issued are held;
\* the tokens go on being used, through Tok::interner, append and prepend.
NextOutlive ==
  \/ \E x \in Strs, s \in StrSlots : Alive("r1") /\ Intern("r1", StrProbe("str", x), s)
  \/ Alive("r1") /\ IV("r1", <<"foo">>, "v1")
  \/ DropInterner("r1")
  \/ \E q \in StrProbes, s, d \in StrSlots : InternVia(s, q, d)
  \/ AppendOp("v1", <<"k1">>, "v2")
  \/ PrependOp("v1", <<"k1">>, "v2")
  \/ \E s \in Slots : Drop(s)

SpecOutlive == InitFirstFit /\ [][NextOutlive]_vars

\* The probe of a call that only names a type: sweep_type::<T>().
TypeProbe(ty) ==
  IF ty = "String" THEN StrProbe("String", "") ELSE VecProbe("Vec", <<>>)

\* The statements of a call in progress on thread t.
Step(t) ==
  \/ LockMap(t)
  \/ FromKey(t)
  \/ OrInsertWith(t)
  \/ Get(t)
  \/ Values(t)
  \/ Write(t)
  \/ FromHash(t)
  \/ Insert(t)
  \/ ExtractIf(t)
  \/ Unlock(t)
  \/ Return(t)

\* Two threads intern strings and sweep, through the Interner r1 and
\* through the tables of the tokens they hold, and drop their tokens.
NextLocks ==
  \E t \in Threads :
    \/ \E q \in StrProbes : CallInterner(t, "i", "r1", q)
    \/ CallInterner(t, "sweep", "r1", NoCall.q)
    \/ \E ty \in Types : CallInterner(t, "sweep_type", "r1", TypeProbe(ty))
    \/ \E q \in StrProbes : CallTable(t, "table_i", q)
    \/ CallTable(t, "table_sweep", NoCall.q)
    \/ Step(t)
    \/ ThreadDrop(t, ThreadSlot[t])

SpecLocks == InitFirstFit /\ [][NextLocks]_vars

\* Each of two threads interns "foo" and the list of it once, appends to
\* the list it holds, and sweeps any number of times, through the Interner
\* r1 and through the tables of the tokens it holds.
NextLive ==
  \E t \in Threads :
    \/ held[ThreadSlot[t]] = NoTok /\ CallInterner(t, "i", "r1", StrProbe("str", "foo"))
    \/ held[ThreadVec[t]] = NoTok /\ CallIV(t, "r1", <<"foo">>)
    \/ CallInterner(t, "sweep", "r1", NoCall.q)
    \/ CallInterner(t, "sweep_type", "r1", TypeProbe("VecTokString"))
    \/ CallTable(t, "table_sweep", NoCall.q)
    \/ CallAppend(t)
    \/ Step(t)
    \/ Collect(t)

\* The statements of a call that wait for nothing.
Progress(t) ==
  \/ FromKey(t)
  \/ OrInsertWith(t)
  \/ Get(t)
  \/ Values(t)
  \/ FromHash(t)
  \/ Insert(t)
  \/ ExtractIf(t)
  \/ Unlock(t)
  \/ Collect(t)
  \/ Return(t)

\* Fair scheduling: a thread that can run its next statement eventually
\* runs it, and a thread that waits for a lock that is free again and again
\* eventually gets it.
Fair ==
  \A t \in Threads :
    /\ WF_vars(Progress(t))
    /\ SF_vars(LockMap(t))
    /\ SF_vars(Write(t))

SpecLive == InitFirstFit /\ [][NextLive]_vars /\ Fair

\* ------------------------------------------------------------- claims ----
\* The string a String token points to.
StrOf(tok) == heap[tok.data].str

\* C1 (idempotence).  Whenever a string is interned (in owned form &String
\* or borrowed form &str) while some token of the same table for the same
\* string is live, the token returned has the id of that live token, whatever
\* interning, dropping and sweeping went before.
C1_Idempotent ==
  [][\A s \in StrSlots :
       (/\ ret'.op = "i"
        /\ held[s] # NoTok
        /\ <<StrOf(held[s])>> = ret'.xs
        /\ Tok_interner_id(held[s]) = Tok_interner_id(ret'.a))
       => Tok_id(ret'.a) = Tok_id(held[s])]_vars

\* C1 witness: a borrowed probe was interned while another slot held a
\* token for the same string, and both slots now hold the same token.
C1_Witness ==
  /\ ret.op = "i" /\ ret.res = "str"
  /\ held["k1"] # NoTok /\ held["k2"] = held["k1"]
  /\ <<StrOf(held["k1"])>> = ret.xs
  /\ ret.a = held["k1"]

\* C2 (distinctness).  Whenever a string is interned while a token of the
\* same table for a different string is live, the token returned has another
\* id than the live one, and the two compare as not equal.
C2_Distinct ==
  [][\A s \in StrSlots :
       (/\ ret'.op = "i"
        /\ held[s] # NoTok
        /\ <<StrOf(held[s])>> # ret'.xs
        /\ Tok_interner_id(held[s]) = Tok_interner_id(ret'.a))
       => /\ Tok_id(ret'.a) # Tok_id(held[s])
          /\ Tok_eq(ret'.a, held[s]) = "false"]_vars

\* C2 witness: "bar" was interned while a token for "foo" was held, and the
\* two tokens now held have different ids.
C2_Witness ==
  /\ ret.op = "i" /\ ret.xs = <<"bar">>
  /\ held["k1"] # NoTok /\ StrOf(held["k1"]) = "foo"
  /\ held["k2"] = ret.a
  /\ Tok_interner_id(held["k1"]) = Tok_interner_id(held["k2"])
  /\ Tok_id(held["k1"]) # Tok_id(held["k2"])

\* The registry whose table issued the token.
IssuedBy(tok) == tbl[tok.interner].reg

\* C3 (cross-domain comparison).  == and cmp on two tokens issued by the
\* tables of two different registries end in the assertion's panic, never
\* in an answer; on two tokens of the same table they never panic.
C3_CrossFatal ==
  ret.op \in {"eq", "cmp"} =>
    /\ IssuedBy(ret.a) # IssuedBy(ret.b) => ret.res = "panic"
    /\ Tok_interner_id(ret.a) = Tok_interner_id(ret.b) => ret.res # "panic"

\* C3 witness: the same string was interned in both registries, the two
\* tokens compared for order, and the comparison panicked.
C3_Witness ==
  /\ ret.op = "cmp" /\ ret.res = "panic"
  /\ IssuedBy(ret.a) = "r1" /\ IssuedBy(ret.b) = "r2"
  /\ StrOf(ret.a) = StrOf(ret.b)

\* The entries of table t whose value no token outside the table refers to.
Unreferenced(t) ==
  {e \in tbl[t].tokens : \A s \in Slots : held[s] = NoTok \/ Tok_id(held[s]) # e.key}

\* C4 (sweep reclaims dead entries), as the documentation states it: a
\* sweep removes exactly the entries whose tokens have all been dropped,
\* returns their number, and size() goes down by that number.
C4_SweepReclaims ==
  [][\A t \in TableAddr :
       (ret'.op \in {"sweep", "sweep_type"} /\ interners["r1"]["String"] = t)
       => /\ tbl'[t].tokens = tbl[t].tokens \ Unreferenced(t)
          /\ ret'.n = Cardinality(Unreferenced(t))
          /\ Cardinality(tbl'[t].tokens) = TypedInterner_size(World, t) - ret'.n]_vars

\* C5 (sweep leaves live entries).  A sweep removes no entry whose value a
\* held token refers to, the held tokens are the same after it, and
\* interning the value of a held token right after the sweep is a hit that
\* returns the held token.
C5_SweepKeepsLive ==
  [][ret'.op \in {"sweep", "sweep_type"} =>
       /\ held' = held
       /\ \A s \in StrSlots : held[s] # NoTok =>
            LET t == Tok_interner_id(held[s])
                W == [heap |-> heap', tbl |-> tbl', interners |-> interners']
            IN /\ \E e \in tbl'[t].tokens : e.key = Tok_id(held[s])
               /\ \E e \in tbl[t].tokens : e.key = Tok_id(held[s]) /\ e \in tbl'[t].tokens
               /\ \A f \in {"String", "str"} :
                    LET q == StrProbe(f, StrOf(held[s]))
                    IN /\ ~Misses(W, t, q)
                       /\ TypedInterner_i(W, t, q, 0).tok = held[s]]_vars

\* C5 witness: a sweep has just run while tokens for both strings were
\* held, and both entries are still in the table.
C5_Witness ==
  /\ ret.op = "sweep"
  /\ held["k1"] # NoTok /\ held["k2"] # NoTok
  /\ StrOf(held["k1"]) # StrOf(held["k2"])
  /\ \A s \in StrSlots :
       \E e \in tbl[Tok_interner_id(held[s])].tokens : e.key = Tok_id(held[s])

\* The strings of the list a held list token points to.
ListOf(tok) == Content(World, tok)

\* C6 (list dedup).  Whenever a list is interned, by iv from owned values,
\* by ibv from borrowed values, or by i from a Vec or a slice of element
\* tokens, the token returned points to that list, and it is the token
\* (same table, same id) of every live list token of the registry with
\* elementwise-equal content, however that one was interned.
C6_ListDedup ==
  [][(ret'.op \in {"iv", "ibv"} \/ (ret'.op = "i" /\ ret'.res \in {"Vec", "slice"}))
     => /\ Content([heap |-> heap', tbl |-> tbl', interners |-> interners'], ret'.a)
             = ret'.xs
        /\ \A v \in VecSlots :
             (held[v] # NoTok /\ ListOf(held[v]) = ret'.xs)
             => /\ Tok_interner_id(ret'.a) = Tok_interner_id(held[v])
                /\ Tok_id(ret'.a) = Tok_id(held[v])]_vars

\* C6 witness: ["foo", "bar"] was interned by ibv while a token for the
\* same list was held, and both slots hold the same token.
C6_Witness ==
  /\ ret.op = "ibv" /\ ret.xs = <<"foo", "bar">>
  /\ held["v1"] # NoTok /\ held["v2"] = held["v1"] /\ ret.a = held["v1"]
  /\ heap[Tok_id(held["v1"])].strong = 3

\* The list an append or a prepend is to return: the receiver's elements
\* with the added ones behind or in front.
Extended(op, own, added) == IF op = "append" THEN own \o added ELSE added \o own

\* C7 (append / prepend round trip).  append and prepend return, in the
\* receiver's table, the token of the concatenated list; that token is the
\* one (same table, same id) of every live token for the same list, and a
\* direct interning of a list through the registry returns the token that
\* append and prepend built for it.
C7_ExtendRoundTrip ==
  [][/\ ret'.op \in {"append", "prepend"} =>
          LET cat == Extended(ret'.op, ListOf(ret'.b), ret'.xs)
          IN /\ Content([heap |-> heap', tbl |-> tbl', interners |-> interners'],
                        ret'.a) = cat
             /\ Tok_interner_id(ret'.a) = Tok_interner_id(ret'.b)
             /\ \A d \in VecSlots :
                  (held[d] # NoTok /\ ListOf(held[d]) = cat) => ret'.a = held[d]
     /\ ret'.op = "iv" =>
          \A v \in VecSlots :
            (held[v] # NoTok /\ ListOf(held[v]) = ret'.xs) => ret'.a = held[v]]_vars

\* C7 witness: L = ["foo", "foo", "bar"], L.append(["foo"]) was prepended
\* with ["bar"] while a token for ["bar", "foo", "foo", "bar", "foo"] was
\* held, and the result is that token.
C7_Witness ==
  /\ ret.op = "prepend" /\ ret.xs = <<"bar">>
  /\ ListOf(ret.a) = <<"bar", "foo", "foo", "bar", "foo">>
  /\ held["v1"] = ret.a /\ held["v2"] = ret.a
  /\ \E e \in tbl[Tok_interner_id(ret.a)].tokens :
       Content(World, Tok(e.key, e.v.interner)) = <<"foo", "foo", "bar", "foo">>

\* C8 (the global singleton is initialised once).  Under every interleaving
\* of get_global, set_global, i, sweep and i! in two threads, at most one
\* closure ever runs as the initialiser (exactly one once the OnceLock is
\* set), the value stored never changes, and the Interner every finished
\* call of every thread got is the one stored.
C8_InitOnce ==
  [][/\ SINGLETON'.runs <= 1
     /\ SINGLETON'.state = "done" <=> SINGLETON'.runs = 1
     /\ SINGLETON.state = "done" => SINGLETON' = SINGLETON
     /\ \A t \in Threads :
          threads'[t].seen # "" =>
            /\ SINGLETON'.state = "done"
            /\ threads'[t].seen = SINGLETON'.value]_vars

\* C8 witness: t2's set_global initialised the singleton, one initialiser
\* has run, and the calls of both threads have returned that Interner, the
\* last of them a get_global.
C8_Witness ==
  /\ SINGLETON.state = "done" /\ SINGLETON.runs = 1
  /\ SINGLETON.value = CustomRegs["t2"][1]
  /\ \A t \in Threads : threads[t].pc = "idle" /\ threads[t].seen = SINGLETON.value
  /\ threads["t1"].sets = 0
  /\ ret.op = "get_global"

\* C9 (set_global).  A call of set_global returns true exactly when the
\* Interner it supplied is the singleton; the call does not change an
\* initialised singleton, and a call entered after the singleton was
\* initialised (by get_global, a global function or another set_global)
\* returns false.
C9_SetGlobal ==
  [][\A t \in Threads :
       /\ (threads[t].pc = "have" /\ threads[t].fn = "set_global"
           /\ threads'[t].pc = "idle")
          => LET mine == CustomRegs[t][threads[t].sets + 1]
             IN /\ threads'[t].out = "true" <=> SINGLETON'.value = mine
                /\ SINGLETON' = SINGLETON
       /\ (threads[t].pc = "idle" /\ threads'[t].fn = "set_global"
           /\ SINGLETON.state = "done")
          => /\ threads'[t].pc = "have" /\ ~threads'[t].done
             /\ SINGLETON' = SINGLETON]_vars

\* C9 witness: the first set_global of t1 made its Interner the singleton;
\* its second and the one of t2 returned false with the singleton unchanged.
C9_Witness ==
  /\ SINGLETON.value = CustomRegs["t1"][1]
  /\ threads["t1"].pc = "idle" /\ threads["t1"].sets = 2
  /\ threads["t1"].out = "false"
  /\ threads["t2"].pc = "idle" /\ threads["t2"].sets = 1
  /\ threads["t2"].out = "false"

\* The token a call of the global i on the literal would return now (NoTok
\* when it would have to insert).
GlobalToken == Existing(World, SINGLETON.value, StrProbe("str", Literal))

\* C10 (thread-local literal cache).  On each thread the i! site calls the
\* interner once at most: when the site has run, VALUE holds the token and
\* later runs return it.  Every token i! returns is the token the global i
\* returns for the literal, and the other way round, sweeps or not.
C10_LiteralCache ==
  [][/\ \A t \in Threads :
          /\ threads'[t].calls <= 1
          /\ threads'[t].VALUE # NoTok => threads'[t].calls = 1
          /\ threads[t].VALUE # NoTok => threads'[t].VALUE = threads[t].VALUE
     /\ ret'.op = "i!" =>
          /\ ret'.a = threads'[ret'.res].VALUE
          /\ heap'[Tok_id(ret'.a)].str = Literal
          /\ GlobalToken # NoTok => ret'.a = GlobalToken
          /\ ret'.a = GlobalToken'
     /\ ret'.op = "global_i" =>
          \A t \in Threads : threads[t].VALUE # NoTok => ret'.a = threads[t].VALUE]_vars

\* C10 witness: both threads have run the i! site, each called the interner
\* once, and t1 has just run the site again and got the token that both
\* threads cache, both hold and the global i returns.
C10_Witness ==
  /\ ret.op = "i!" /\ ret.res = "t1"
  /\ \A t \in Threads : threads[t].calls = 1 /\ threads[t].VALUE = ret.a
  /\ held["k1"] = ret.a /\ held["k2"] = ret.a
  /\ heap[Tok_id(ret.a)].strong = 5
  /\ ret.a = GlobalToken

\* C11 (sweep_type touches one table).  r.sweep_type::<T>() leaves the map
\* of the registry as it is: it creates no table.  When T was never used in
\* r it returns 0 and changes nothing at all.  The entries and the size() of
\* every table other than T's are the same before and after.
C11_SweepTypeFrame ==
  [][ret'.op = "sweep_type" =>
       LET r == ret'.res
           ty == ret'.xs[1]
       IN /\ interners' = interners
          /\ interners[r][ty] = NoTable =>
               ret'.n = 0 /\ tbl' = tbl /\ heap' = heap
          /\ \A t \in TableAddr :
               t # interners[r][ty] =>
                 /\ tbl'[t].tokens = tbl[t].tokens
                 /\ Cardinality(tbl'[t].tokens) = TypedInterner_size(World, t)]_vars

\* C11 witness: sweep_type::<Vec<Tok<String>>>() has just returned 0 in a
\* registry that never stored a list and whose String table has two entries.
C11_Witness ==
  /\ ret.op = "sweep_type" /\ ret.xs = <<"VecTokString">> /\ ret.n = 0
  /\ interners["r1"]["VecTokString"] = NoTable
  /\ interners["r1"]["String"] # NoTable
  /\ TypedInterner_size(World, interners["r1"]["String"]) = 2

\* The value a token points to, as the probe &T that finds it again.
ProbeOf(W, tok) == Borrow(W.heap[tok.data], OwnedForm(W.heap[tok.data].ty))

\* C12 (a token outlives its registry).  In every state, also after the
\* Interner that created the table was dropped, every held token points to
\* an allocated value that is the one it was issued for, its TypedInterner
\* is allocated and strongly referenced, and interning the token's value
\* through that table finds the token again.  An intern through
\* Tok::interner, an append or a prepend returns the held token of the same
\* table with the same content when there is one.
C12_TokenOutlivesRegistry ==
  [][LET W == [heap |-> heap', tbl |-> tbl', interners |-> interners'] IN
     /\ \A s \in Slots :
          held'[s] # NoTok =>
            /\ heap'[held'[s].data].ty # "free" /\ heap'[held'[s].data].strong >= 1
            /\ tbl'[held'[s].interner].ty = heap'[held'[s].data].ty
            /\ tbl'[held'[s].interner].strong >= 1
            /\ held'[s] = held[s] =>
                 ProbeOf(W, held'[s]) = ProbeOf(World, held[s])
            /\ TypedInterner_i(W, held'[s].interner, ProbeOf(W, held'[s]), 0).tok
                 = held'[s]
     /\ ret'.op \in {"via", "append", "prepend"} =>
          \A s \in Slots :
            (/\ held[s] # NoTok
             /\ held[s].interner = ret'.a.interner
             /\ ProbeOf(World, held[s]) = ProbeOf(W, ret'.a))
            => ret'.a = held[s]]_vars

\* C12 witness: the registry is gone, "foo" has just been interned through
\* the table of a held token, and the result is the token that was held;
\* the table is kept by the two held tokens and the element of a held list.
C12_Witness ==
  /\ ~Alive("r1")
  /\ ret.op = "via" /\ ret.xs = <<"foo">>
  /\ held["k1"] # NoTok /\ held["k2"] = held["k1"] /\ ret.a = held["k1"]
  /\ held["v1"] # NoTok /\ ListOf(held["v1"]) = <<"foo">>
  /\ tbl[held["k1"].interner].strong = 3

\* C13 (intern is total).  Every call of i returns a token (`ret` is Some
\* when expect is reached), whether the table is new, has no entry for the
\* probe or has one: the token points to an allocated value of the probe's
\* owned type whose content equals the probe, in a table of that type that
\* has the value as a key.  (An entry whose WeakTok does not upgrade exists
\* in no reachable state.)
C13_InternTotal ==
  [][ret'.op = "i" =>
       /\ ret'.a # NoTok
       /\ heap'[Tok_id(ret'.a)].ty = OwnedType(ret'.res)
       /\ heap'[Tok_id(ret'.a)].strong >= 2
       /\ <<heap'[Tok_id(ret'.a)].str>> = ret'.xs
       /\ tbl'[Tok_interner_id(ret'.a)].ty = OwnedType(ret'.res)
       /\ \E e \in tbl'[Tok_interner_id(ret'.a)].tokens : e.key = Tok_id(ret'.a)
       /\ \A t \in TableAddr : \A e \in tbl'[t].tokens :
            WeakTok_upgrade([heap |-> heap', tbl |-> tbl', interners |-> interners'],
                            e.v) # NoTok]_vars

\* C13 witness: "foo" was interned on a live hit (the key and two held
\* tokens refer to the value) in a table that also keeps the entry of a
\* value interned on a miss and no longer held.
C13_Witness ==
  /\ ret.op = "i" /\ ret.xs = <<"foo">>
  /\ held["k1"] = ret.a /\ held["k2"] = ret.a
  /\ heap[Tok_id(ret.a)].strong = 3
  /\ TypedInterner_size(World, Tok_interner_id(ret.a)) = 2

\* C14 (tl_cache! type mismatch).  An access at a call site whose cached
\* value has another type than the one requested there panics; an access
\* whose types match returns the cached value.  The value cached on a thread
\* is the one of the first access and is never replaced.
C14_CacheMismatchFatal ==
  [][ret'.op = "tl_cache" =>
       LET t == ret'.xs[1]
           c == ret'.xs[2]
       IN /\ MY_VALUE'[t][c].init
          /\ MY_VALUE'[t][c].name # RequestedType[c] => ret'.res = "panic"
          /\ MY_VALUE'[t][c].name = RequestedType[c] =>
               ret'.res = "ok" /\ ret'.n = MY_VALUE'[t][c].data
          /\ MY_VALUE[t][c].init => MY_VALUE'[t][c] = MY_VALUE[t][c]]_vars

\* C14 witness: on t1 the site used as i32 has cached 2, and the site used
\* as u64 has just panicked with its i32 value cached.
C14_Witness ==
  /\ ret.op = "tl_cache" /\ ret.xs = <<"t1", "tl_cache_incorrect">>
  /\ ret.res = "panic"
  /\ MY_VALUE["t1"]["tl_cache_incorrect"].name = "i32"
  /\ MY_VALUE["t1"]["tl_cache_correct"] = [init |-> TRUE, name |-> "i32", data |-> 2]

\* C15 (the value is freed with its last token), as the documentation
\* states it: while another token for the value is held a drop frees
\* nothing; the drop of the last token frees the value's storage, so that
\* from then on the WeakTok of its row does not upgrade, while the row stays
\* in the table and size() still counts it.
C15_FreedOnLastDrop ==
  [][\A s \in StrSlots :
       (ret'.op = "drop" /\ held[s] # NoTok /\ held'[s] = NoTok) =>
         LET a == Tok_id(held[s])
             t == Tok_interner_id(held[s])
             W == [heap |-> heap', tbl |-> tbl', interners |-> interners']
             last == \A o \in StrSlots \ {s} : held[o] # held[s]
         IN /\ ~last => heap'[a].strong >= 1
            /\ last =>
                 /\ heap'[a].strong = 0
                 /\ \A e \in tbl'[t].tokens :
                      e.key = a => WeakTok_upgrade(W, e.v) = NoTok
                 /\ tbl'[t].tokens = tbl[t].tokens
                 /\ Cardinality(tbl'[t].tokens) = TypedInterner_size(World, t)]_vars

\* The entries of table t whose stored value equals (T's ==) the value at
\* address a.
EntriesFor(t, a) ==
  {e \in tbl[t].tokens : ProbeEq(ProbeOf(World, Tok(e.key, t)), ProbeOf(World, Tok(a, t))) = "true"}

\* C16 (table uniqueness).  In every state, no table has two entries with
\* equal stored values, and the value of every held token is the stored
\* value of exactly one entry of the token's table, the one whose key is the
\* token's own allocation.
C16_TableUnique ==
  /\ \A t \in TableAddr : \A e \in tbl[t].tokens : EntriesFor(t, e.key) = {e}
  /\ \A s \in Slots :
       held[s] # NoTok =>
         /\ Cardinality(EntriesFor(Tok_interner_id(held[s]), Tok_id(held[s]))) = 1
         /\ \E e \in tbl[Tok_interner_id(held[s])].tokens : e.key = Tok_id(held[s])

\* C16 witness: after a sweep the String table has both strings and the
\* list table both lists, each once, with "foo" held twice and a list held.
C16_Witness ==
  /\ ret.op = "sweep"
  /\ held["k1"] # NoTok /\ held["k2"] = held["k1"] /\ held["v1"] # NoTok
  /\ TypedInterner_size(World, interners["r1"]["String"]) = 2
  /\ TypedInterner_size(World, interners["r1"]["VecTokString"]) = 2

\* Whether thread t holds the guard of `interners` of some Interner.
HoldsMap(t) == \E r \in Registries : locks.interners[r] = t

\* Whether thread t holds the write guard of `tokens` of some table.
HoldsTable(t) == \E x \in TableAddr : locks.tokens[x] = t

\* Whether thread t is at tokens.write() of the table x.
WaitsTable(t, x) == frames[t].pc = "write" /\ frames[t].t = x

\* C17: the lock of the type-to-table map is held only while the handle of
\* the table is resolved or created: no thread holds it while it waits for
\* the lock of a table or works under one.
C17_MapLockOnlyResolves ==
  \A t \in Threads :
    HoldsMap(t) => ~(HoldsTable(t) \/ \E x \in TableAddr : WaitsTable(t, x))
\* The tokens that are live: the ones the threads hold and the ones calls
\* in progress are about to return.
LiveToks ==
  ({held[s] : s \in Slots} \cup {frames[t].tok : t \in Threads}) \ {NoTok}

\* C18: interning and sweeping one table exclude each other.  Whatever the
\* interleaving, a sweep step removes the entry of no live token, the one a
\* concurrent intern is about to return included; and the token an intern
\* of a string returns has its entry in the table and has the id of every
\* token of that table with the same content that is held when it returns.
C18_InternSweepExclusive ==
  [][\A t \in Threads :
       /\ (frames[t].pc = "extract_if" /\ frames'[t].pc = "unlock") =>
            \A k \in LiveToks :
              \A e \in tbl[k.interner].tokens :
                e.key = k.data => e \in tbl'[k.interner].tokens
       /\ (frames[t].op \in {"i", "table_i"} /\ frames[t].pc = "return"
              /\ frames'[t].pc = "idle") =>
            /\ \E e \in tbl'[frames[t].tok.interner].tokens :
                 e.key = frames[t].tok.data
            /\ heap'[frames[t].tok.data].str = frames[t].q.str
            /\ \A s \in Slots :
                 (/\ held'[s] # NoTok
                  /\ held'[s].interner = frames[t].tok.interner
                  /\ heap'[held'[s].data].str = frames[t].q.str)
                 => Tok_id(held'[s]) = Tok_id(frames[t].tok)]_vars

\* C18 witness: thread t2, through the table of the token it holds, has
\* swept the String table while the call of thread t1 that created "bar"
\* in it has not yet returned its token.
C18_Witness ==
  /\ frames["t1"].op = "i" /\ frames["t1"].pc = "return"
  /\ frames["t1"].q.str = "bar"
  /\ heap[frames["t1"].tok.data].strong = 2
  /\ frames["t2"].op = "table_sweep" /\ frames["t2"].pc = "return"
  /\ frames["t2"].t = frames["t1"].tok.interner
  /\ \E e \in tbl[frames["t2"].t].tokens : e.key = frames["t1"].tok.data
\* The tables get_interner of the Interner r created for the type ty that
\* are still allocated.
TablesOf(r, ty) == {x \in TableAddr : tbl[x].reg = r /\ tbl[x].ty = ty}

\* C20: one table per type.  In every state, also while several threads
\* use a type for the first time, an Interner has at most one table for a
\* type and it is the one its map has under the type; an intern through the
\* Interner works on that table; every token of the type issued through the
\* Interner has that table; and no call has panicked on the downcast of
\* get_interner.
C20_OneTablePerType ==
  /\ \A r \in Registries : \A ty \in Types :
       /\ Cardinality(TablesOf(r, ty)) <= 1
       /\ TablesOf(r, ty) \subseteq {interners[r][ty]}
  /\ \A t \in Threads :
       /\ frames[t].pc # "panicked"
       /\ (frames[t].op \in {"i", "iv"} /\ frames[t].t # NoTable) =>
            frames[t].t = interners[frames[t].reg][TypeOf(frames[t])]
  /\ \A s \in Slots :
       held[s] # NoTok =>
         \E r \in Registries :
           held[s].interner = interners[r][heap[held[s].data].ty]

\* C20 witness: thread t1, the first to use String, has created the table
\* and is about to lock it, while thread t2, also interning a string, waits
\* for the map.
C20_Witness ==
  /\ frames["t1"].op = "i" /\ frames["t1"].pc = "write"
  /\ frames["t1"].t = interners["r1"]["String"]
  /\ tbl[frames["t1"].t].tokens = {}
  /\ frames["t2"].op = "i" /\ frames["t2"].pc = "lock_map"
  /\ locks.interners["r1"] = "t1"
\* Whether thread a waits for a lock that thread b holds.
WaitsFor(a, b) ==
  \/ frames[a].pc = "lock_map" /\ locks.interners[frames[a].reg] = b
  \/ frames[a].pc = "write" /\ locks.tokens[frames[a].t] = b

SameValue(a, b) ==
  /\ heap[a].ty = heap[b].ty
  /\ heap[a].str = heap[b].str
  /\ heap[a].elems = heap[b].elems

\* C21: concurrent interning is linearizable.  In every state, whatever the
\* overlap of the calls, the tokens of one table with equal values that
\* threads hold or that calls in progress have obtained all have the same
\* id, and the table has exactly one entry for that value.
C21_Linearizable ==
  \A k \in LiveToks :
    /\ \A j \in LiveToks :
         (j.interner = k.interner /\ SameValue(j.data, k.data)) =>
           Tok_id(j) = Tok_id(k)
    /\ Cardinality({e \in tbl[k.interner].tokens : SameValue(e.key, k.data)}) = 1

\* C21 witness: two calls that overlap, one through the Interner and one
\* through the table of a held token, have both obtained the token of
\* "bar", which was not in the table before and which nobody holds yet.
C21_Witness ==
  /\ frames["t1"].op = "i" /\ frames["t1"].pc = "return"
  /\ frames["t2"].op = "table_i" /\ frames["t2"].pc = "return"
  /\ frames["t1"].q.str = "bar" /\ frames["t2"].q.str = "bar"
  /\ frames["t1"].tok = frames["t2"].tok
  /\ heap[frames["t1"].tok.data].str = "bar"
  /\ heap[frames["t1"].tok.data].strong = 3
  /\ \A s \in Slots : held[s] # NoTok => heap[held[s].data].str = "foo"
====
